---------------------------- MODULE Spec2Model ----------------------------
(***************************************************************************)
(* Trip Capture: the trip CRUD routes (app/api/trips/route.ts), the count  *)
(* route (app/api/trips/count/route.ts) and the pages that call them, run  *)
(* against the JsonSilo document store.  Each client has at most one       *)
(* request outstanding; the store answers every GET and PATCH on its own   *)
(* step, so two handlers interleave between their awaits.                  *)
(***************************************************************************)
EXTENDS Integers, Sequences, FiniteSets

\* ---- bounds of the model
MaxClock == 1
MaxTrips == 2
MaxTravelers == 1
MaxQuery == 4
MaxPlaces == 6
MaxWeatherRequests == 3
MaxTimers == 3
MaxTicks == 6
MaxPending == 3
MaxPicks == 2

Procs == {1, 2}
Origins == {"SF", "LA"}

\* ---- text: a string is the sequence of its characters
Space == " "

RECURSIVE TrimStart(_)
TrimStart(s) ==
  IF s # <<>> /\ Head(s) = Space THEN TrimStart(Tail(s)) ELSE s

RECURSIVE TrimEnd(_)
TrimEnd(s) ==
  IF s # <<>> /\ s[Len(s)] = Space THEN TrimEnd(SubSeq(s, 1, Len(s) - 1)) ELSE s

\* String.prototype.trim()
Trim(s) == TrimEnd(TrimStart(s))

\* ---- values
Digits == <<"0", "1", "2", "3", "4", "5", "6", "7", "8", "9">>

RECURSIVE NumberToString(_)
\* Number.prototype.toString(): the decimal digits of a non-negative integer
NumberToString(n) ==
  IF n < 10 THEN Digits[n + 1]
  ELSE NumberToString(n \div 10) \o Digits[(n % 10) + 1]

ClockValues == 0..MaxClock
TripIds == {NumberToString(n) : n \in ClockValues}

\* newtrip/page.tsx useState: tripNumber: '1'
DefaultTripNumber == "1"

\* a TripData value (the fields the routes and the list page read)
MkTrip(id, origin, createdAt) ==
  [id |-> id, origin |-> origin, createdAt |-> createdAt, travelers |-> <<>>,
   tripNumber |-> DefaultTripNumber]

WithTravelers(trip, travelers) == [trip EXCEPT !.travelers = travelers]

NoTrip == MkTrip("", "", 0)

\* bodies a caller can send to PUT /api/trips
TripBodies == {MkTrip(NumberToString(n), o, n) : n \in ClockValues, o \in Origins}

\* a Traveler of the new-trip form
MkTraveler(id, name) == [id |-> id, name |-> name]

\* what the user types into a traveler's name field
NameValues == {<<Space>>, <<Space, "A">>}

\* bodies a caller can send to PUT /api/trips to change a trip's travelers
TravelerBodies ==
  {WithTravelers(MkTrip(NumberToString(n), "SF", n), <<MkTraveler("0", name)>>) :
     n \in ClockValues, name \in NameValues \cup {<<>>}}

\* searchParams.get('id'): null when the parameter is missing
NoId == "null"
DeleteIds == TripIds \cup {NoId, ""}

\* a slip: only the empty string is taken for a missing id
FalsyEmptyOnly(s) == s = ""

\* !tripId in JavaScript: null and the empty string are falsy
Falsy(s) == s = NoId \/ s = ""

\* ---- the store's responses
GetOutcomes == {"ok_wrapped", "ok_bare", "bad_status", "bad_json", "throws"}
PatchOutcomes == {"ok", "bad_status", "throws"}

\* response.ok
ResponseOk(outcome) == outcome \in {"ok_wrapped", "ok_bare", "bad_json", "ok"}

\* response.json() resolves
Parses(outcome) == outcome \in {"ok_wrapped", "ok_bare"}

\* a field holding an array that may be missing from the JSON object
Missing == [has |-> FALSE, trips |-> <<>>]
Present(ts) == [has |-> TRUE, trips |-> ts]

\* the JSON body of a GET response: the envelope {file_data:{trips}} or the
\* file content {trips}; d is the file content
StoreBody(outcome, d) ==
  IF outcome = "ok_wrapped" THEN [file_data |-> d, top |-> Missing]
  ELSE [file_data |-> Missing, top |-> d]

\* ---- route.ts: reading the trips out of a response body
GetTrips(data) ==
  IF data.file_data.has THEN data.file_data.trips
  ELSE IF data.top.has THEN data.top.trips
  ELSE <<>>

PostExisting(responseData) ==
  IF responseData.file_data.has THEN responseData.file_data.trips
  ELSE IF responseData.top.has THEN responseData.top.trips
  ELSE <<>>

\* a slip: the top-level trips are looked at first
PutTripsTopFirst(responseData) ==
  IF responseData.top.has THEN responseData.top.trips
  ELSE IF responseData.file_data.has THEN responseData.file_data.trips
  ELSE <<>>

PutTrips(responseData) ==
  IF responseData.file_data.has THEN responseData.file_data.trips
  ELSE IF responseData.top.has THEN responseData.top.trips
  ELSE <<>>

DeleteTrips(responseData) ==
  IF responseData.file_data.has THEN responseData.file_data.trips
  ELSE IF responseData.top.has THEN responseData.top.trips
  ELSE <<>>

\* the handlers of route.ts that read a response body of the store
Handlers == {"GET", "POST", "PUT", "DELETE"}

\* the trips array each of them takes from the body
TripsReadBy(handler, body) ==
  CASE handler = "GET" -> GetTrips(body)
    [] handler = "POST" -> PostExisting(body)
    [] handler = "PUT" -> PutTrips(body)
    [] handler = "DELETE" -> DeleteTrips(body)

\* the arrays a body can carry under file_data.trips and under trips
BodyTrips ==
  LET a == MkTrip("0", "SF", 0)
      b == MkTrip("1", "LA", 1)
  IN {<<>>, <<a>>, <<b>>, <<a, b>>, <<b, a>>}

BodyFields == {Missing} \cup {Present(ts) : ts \in BodyTrips}

\* the JSON objects the store can answer with: either field, both or none
Bodies == [file_data : BodyFields, top : BodyFields]

\* count/route.ts: data.file_data?.trips?.length || 0
CountTrips(data) ==
  IF data.file_data.has THEN Len(data.file_data.trips) ELSE 0

\* ---- route.ts: the in-memory list operations
\* a slip: POST gives up on a failed GET, as PUT and DELETE do
PostAbortsOnStatus(outcome) == outcome = "throws" \/ ~ResponseOk(outcome)

\* POST leaves for its catch only when fetch itself rejects: it has no
\* if (!getResponse.ok) throw
PostAborts(outcome) == outcome = "throws"

\* a slip: unshift instead of push
PostUnshift(trips, tripData) == <<tripData>> \o trips

\* existingData.file_data.trips.push(tripData)
PostPush(trips, tripData) == Append(trips, tripData)

RECURSIVE FindFrom(_, _, _)
FindFrom(trips, id, i) ==
  IF i > Len(trips) THEN 0
  ELSE IF trips[i].id = id THEN i
  ELSE FindFrom(trips, id, i + 1)

\* trips.findIndex(trip => trip.id === updatedTrip.id), 1-based, 0 for -1
PutFindIndex(trips, id) == FindFrom(trips, id, 1)

\* tripIndex === -1
PutNotFound(tripIndex) == tripIndex = 0

\* a slip: trips[0] = updatedTrip
PutReplaceFirst(trips, tripIndex, updatedTrip) ==
  [trips EXCEPT ![1] = updatedTrip]

\* trips[tripIndex] = updatedTrip
PutReplace(trips, tripIndex, updatedTrip) ==
  [trips EXCEPT ![tripIndex] = updatedTrip]

\* a slip: only the first entry of that id is removed
DeleteFilterFirst(trips, tripId) ==
  LET Before(i) == \A j \in 1..(i - 1) : trips[j].id # tripId
      Keep(i) == ~(trips[i].id = tripId /\ Before(i))
      kept == {i \in 1..Len(trips) : Keep(i)}
  IN IF kept = 1..Len(trips) THEN trips
     ELSE LET first == CHOOSE i \in 1..Len(trips) : ~Keep(i)
          IN SubSeq(trips, 1, first - 1) \o SubSeq(trips, first + 1, Len(trips))

\* trips.filter(trip => trip.id !== tripId)
DeleteFilter(trips, tripId) ==
  LET Keep(t) == t.id # tripId IN SelectSeq(trips, Keep)

\* a slip: trips.length > originalLength
DeleteNotFoundNever(trips, originalLength) == Len(trips) > originalLength

\* trips.length === originalLength
DeleteNotFound(trips, originalLength) == Len(trips) = originalLength

\* a slip: the PATCH response is not checked
PatchNeverFailed(outcome) == FALSE

\* !patchResponse.ok
PatchFailed(outcome) == ~ResponseOk(outcome)

\* the body of every PATCH: a fixed envelope around the whole trips array
PatchBody(trips) ==
  [file_name |-> "trips_data", file_data |-> Present(trips),
   region_name |-> "api", is_public |-> FALSE]

\* ---- page.tsx: tripsData.sort((a, b) => b.createdAt - a.createdAt), a stable sort
\* a slip: no sort, the list is shown in stored order
InsertLast(sorted, t) == Append(sorted, t)

RECURSIVE InsertNewestFirst(_, _)
InsertNewestFirst(sorted, t) ==
  IF sorted = <<>> THEN <<t>>
  ELSE IF Head(sorted).createdAt >= t.createdAt
       THEN <<Head(sorted)>> \o InsertNewestFirst(Tail(sorted), t)
       ELSE <<t>> \o sorted

RECURSIVE SortNewestFirst(_)
SortNewestFirst(trips) ==
  IF trips = <<>> THEN <<>>
  ELSE InsertNewestFirst(SortNewestFirst(SubSeq(trips, 1, Len(trips) - 1)),
                         trips[Len(trips)])

\* ---- newtrip/page.tsx: travelers.filter(t => t.name.trim() !== '')
FilterTravelers(travelers) ==
  LET Named(t) == Trim(t.name) # <<>> IN SelectSeq(travelers, Named)

\* ---- utils/geocoding.ts
\* a UTF-16 surrogate without its pair: encodeURIComponent throws URIError on it
LoneSurrogate == "U+D800"
QueryChars == {Space, "a", LoneSurrogate}

\* the texts a caller passes as query
Queries == UNION {[1..k -> QueryChars] : k \in 0..MaxQuery}

\* the coordinates a caller passes
Coords == {-1, 0, 12}

MinQueryLength == 3
SearchLimit == 5

\* a slip: the length is taken without trim()
TooShortUntrimmed(query) == query = <<>> \/ Len(query) < MinQueryLength

\* !query || query.trim().length < 3
TooShort(query) == query = <<>> \/ Len(Trim(query)) < MinQueryLength

EncodeURIComponentThrows(text) == \E i \in 1..Len(text) : text[i] = LoneSurrogate

EncodeURIComponent(text) ==
  [i \in 1..Len(text) |-> IF text[i] = Space THEN "%20" ELSE text[i]]

NoUrl == [path |-> "none", q |-> <<>>, limit |-> 0, lat |-> "", lon |-> ""]

\* a slip: &limit=5 is left out, the provider's default of 10 applies
SearchUrlDefaultLimit(query) ==
  [NoUrl EXCEPT !.path = "search", !.q = EncodeURIComponent(query), !.limit = 10]

\* /search?format=json&q=${encodeURIComponent(query)}&limit=5&addressdetails=1
SearchUrl(query) ==
  [NoUrl EXCEPT !.path = "search", !.q = EncodeURIComponent(query),
                !.limit = SearchLimit]

\* ${lat}: Number.prototype.toString() of an integer
CoordToString(n) ==
  IF n < 0 THEN "-" \o NumberToString(0 - n) ELSE NumberToString(n)

\* /reverse?format=json&lat=${lat}&lon=${lng}&addressdetails=1
ReverseUrl(lat, lng) ==
  [NoUrl EXCEPT !.path = "reverse", !.lat = CoordToString(lat),
                !.lon = CoordToString(lng)]

\* what the provider can answer; ok_null: the JSON text null; ok_noname: an object
\* without display_name
GeoOutcomes ==
  {"ok", "ok_null", "ok_noname", "bad_status", "bad_json", "throws"}

\* the provider's answer to /search: the matches in its ranking, cut at limit
NominatimSearch(url, matches) ==
  [i \in 1..(IF matches < url.limit THEN matches ELSE url.limit) |-> i]

\* a JSON body: null, or a value
JsonNull == [null |-> TRUE, list |-> <<>>, display_name |-> ""]
JsonList(list) == [JsonNull EXCEPT !.null = FALSE, !.list = list]
JsonPlace(name) == [JsonNull EXCEPT !.null = FALSE, !.display_name = name]

\* the body of the provider's response
GeoBody(outcome, url, matches) ==
  IF outcome = "ok_null" THEN JsonNull
  ELSE IF outcome = "bad_status" THEN JsonList(<<"error">>)
  ELSE IF url.path = "search"
  THEN JsonList(IF outcome = "ok" THEN NominatimSearch(url, matches) ELSE <<>>)
  ELSE JsonPlace(IF outcome = "ok" THEN "1 Main St" ELSE "")

\* a slip: the status of the response is not looked at
GeoResponseAlwaysOk(outcome) == TRUE

\* response.ok
GeoResponseOk(outcome) == outcome \notin {"bad_status", "throws"}

\* where the body of the function can raise an error
GeoStage(outcome, url) ==
  IF outcome = "throws" THEN "fetch"
  ELSE IF ~GeoResponseOk(outcome) THEN "status"
  ELSE IF outcome = "bad_json" THEN "json"
  ELSE IF outcome = "ok_null" /\ url.path = "reverse" THEN "read"
  ELSE "none"

\* the statements inside try { } of searchLocations and of reverseGeocode
GeoInTry(stage) == stage \in {"encode", "fetch", "status", "json", "read"}

\* return data || []
SearchReturn(data) == IF data.null THEN <<>> ELSE data.list

\* `${lat}, ${lng}` next to data.display_name
ReverseFallback(lat, lng) == CoordToString(lat) \o ", " \o CoordToString(lng)

\* a slip: the coordinates are swapped
ReverseCaughtSwapped(lat, lng) == CoordToString(lng) \o ", " \o CoordToString(lat)

\* catch: return `${lat}, ${lng}`
ReverseCaught(lat, lng) == CoordToString(lat) \o ", " \o CoordToString(lng)

\* return data.display_name || `${lat}, ${lng}`
ReverseReturn(data, lat, lng) ==
  IF data.display_name # "" THEN data.display_name ELSE ReverseFallback(lat, lng)

\* ---- api/weather/route.ts
\* searchParams.get('lat'), searchParams.get('lng'): null, or the text given
WeatherParams == {NoId, "", "abc", "12", "91"}

\* a slip: && instead of ||
WeatherMissingBoth(lat, lng) == Falsy(lat) /\ Falsy(lng)

\* !lat || !lng
WeatherMissing(lat, lng) == Falsy(lat) \/ Falsy(lng)

\* /v1/forecast?latitude=${lat}&longitude=${lng}&current=temperature_2m,wind_speed_10m
WeatherUrl(lat, lng) == [latitude |-> lat, longitude |-> lng]

\* the forecast provider accepts a latitude within -90..90 and a longitude within
\* -180..180 and answers anything else with an error status
ForecastAccepts(url) == url.latitude = "12" /\ url.longitude \in {"12", "91"}

\* ok_malformed: a JSON object without current
WeatherOutcomes == {"ok", "ok_malformed", "bad_status", "bad_json", "throws"}

Temperatures == {-3, 21}

NoWeather == [temperature |-> 0, temperatureUnit |-> "", coordinates |-> WeatherUrl("", "")]

\* the object the route answers with on success
WeatherData(url, temperature) ==
  [temperature |-> temperature, temperatureUnit |-> "C", coordinates |-> url]

\* !weatherResponse.ok
WeatherFailed(outcome) == outcome = "bad_status"

\* ---- LocationSearch
\* what the input can hold after a change: typed, pasted or picked from the list
SearchValues ==
  {<<>>, <<"a", "b">>, <<Space, "a", "b">>, <<"a", "b", "c">>, <<"a", "b", "c", "d">>}

\* setTimeout(..., 500)
SearchDelay == 500

\* the steps in which the clock is read, in milliseconds
TickStep == SearchDelay \div 2

\* searchTimeout: useRef<NodeJS.Timeout>(), undefined at first
NoTimer == 0

\* a slip: the timer is left running
ClearTimeoutForgotten(timers, id) == timers

\* if (searchTimeout.current) clearTimeout(searchTimeout.current)
ClearTimeout(timers, id) ==
  IF id # NoTimer THEN {t \in timers : t.id # id} ELSE timers

\* value.trim().length < 3
SearchTooShort(value) == Len(Trim(value)) < MinQueryLength

\* setTimeout(async () => { ... searchLocations(value) ... }, 500)
SetTimeout(timers, id, now, value) ==
  timers \cup {[id |-> id, due |-> now + SearchDelay, value |-> value]}

\* ---- MapComponent
\* places on the map
MapPoints == Coords \X Coords
NoPoint == <<>>

\* useState<[number, number]>([37.7749, -122.4194]), the form's default centre
DefaultCenter == <<0, 0>>

MapPages == {"trip", "newtrip"}

\* a slip: the detail page passes no handler
DetailPassesNoHandler(page) == page = "newtrip"

\* if (onLocationSelect): the form passes handleMapLocationSelect, the detail
\* page passes () => {}, and a function is truthy
HandlerGiven(page) == page \in {"newtrip", "trip"}

\* ---- NewTrip
\* a slip: the count itself
NextTripNumberIsCount(trips) == NumberToString(Len(trips))

\* (tripCount + 1).toString()
NextTripNumber(trips) == NumberToString(Len(trips) + 1)

\* what /newtrip?edit= can carry: nothing, or the id of the trip shown
EditParams == TripIds \cup {NoId}

\* a slip: the form keeps the id of the trip it was opened for
SaveIdOfEdited(edit, now) == IF edit # NoId THEN edit ELSE NumberToString(now)

\* id: Date.now().toString(); the edit parameter is never read
SaveId(edit, now) == NumberToString(now)

\* setTimeout(..., 1000)
WeatherDelay == 1000

\* a slip: a real debounce, the pending fetches are dropped
ScheduleWeatherDebounced(timers, id, location, now) ==
  {[id |-> id, location |-> location, due |-> now + WeatherDelay]}

\* setTimeout(() => { fetchWeatherData(location.lat, location.lng) }, 1000)
ScheduleWeather(timers, id, location, now) ==
  timers \cup {[id |-> id, location |-> location, due |-> now + WeatherDelay]}

\* ---- the theme of Home, NewTrip and the trip page
\* localStorage.getItem('theme') when nothing is stored
NoTheme == "null"

\* useState<'light' | 'dark'>('light')
InitialTheme == "light"

ThemePages == {"home", "newtrip", "trip"}

\* first effect: setTheme(savedTheme), or setTheme('light') when nothing is stored
LoadSavedTheme(t) ==
  [t EXCEPT !.pending =
     Append(@, IF t.storage # NoTheme THEN t.storage ELSE "light")]

\* second effect, [theme]: the body's class and localStorage.setItem('theme', theme)
SaveTheme(t) == [t EXCEPT !.bodyLight = (t.state = "light"), !.storage = t.state]

\* third effect: document.body.classList.add('light-mode')
StartLight(t) == [t EXCEPT !.bodyLight = TRUE]

\* the effects of the first render, in the order the component declares them
MountEffects(t) == StartLight(SaveTheme(LoadSavedTheme(t)))

\* a queued update: a value, or toggleTheme's prev => prev === 'dark' ? 'light' : 'dark'
ApplyUpdate(state, update) ==
  IF update = "toggle" THEN (IF state = "dark" THEN "light" ELSE "dark") ELSE update

RECURSIVE ApplyUpdates(_, _)
ApplyUpdates(state, updates) ==
  IF updates = <<>> THEN state
  ELSE ApplyUpdates(ApplyUpdate(state, Head(updates)), Tail(updates))

\* !JSONSILO_API_URL || !JSONSILO_API_KEY
ConfigMissing(c) == ~c.url \/ ~c.key

VARIABLES
  cfg,      \* which of JSONSILO_API_URL, JSONSILO_API_KEY the server process has
  serial,   \* scheduling: TRUE when the clients take turns
  doc,      \* the store's file content: {trips: [...]} or an object without trips
  req,      \* each client's outstanding request and the handler serving it
  home,     \* each client's list page (app/page.tsx): trips, error, loading
  gh,       \* history of each outstanding request
  last,     \* history: the successful write that ran alone just before now
  form,     \* each client's new-trip form (app/newtrip/page.tsx): travelers
  geo,      \* a call of utils/geocoding.ts and the provider's requests
  weather,  \* a request to GET /api/weather and the provider's requests
  search,   \* the LocationSearch component: value, timers, calls
  theme,    \* the theme: local storage and the page showing it
  parsed,   \* a store response body and what each handler reads out of it
  mapView,  \* a MapComponent on screen: marker, currentLocation, click handler
  newtrip,  \* each client's new-trip form: tripNumber and the edit parameter
  picked    \* the new-trip form's picked locations and their weather fetches

tripVars == <<cfg, serial, doc, req, home, gh, last>>
pages == <<mapView, newtrip, picked>>
side == <<geo, weather, search, theme, parsed, pages>>
vars == <<cfg, serial, doc, req, home, gh, last, form, geo, weather, search, theme, parsed,
          mapView, newtrip, picked>>

Idle ==
  [pc |-> "idle", op |-> "none", caller |-> "none", trip |-> NoTrip, id |-> "",
   trips |-> <<>>, status |-> 0, error |-> "", out |-> <<>>, count |-> 0,
   nextTripNumber |-> 0]

\* useState initial values of Home; mounted: the page is on screen
NoPage == [mounted |-> FALSE, trips |-> <<>>, error |-> "", loading |-> TRUE]

\* useState<Traveler[]>([])
NoTravelers == <<>>

\* ---- the state of the lookups, the search box, the theme and the body reader
GeoIdle ==
  [pc |-> "idle", fn |-> "none", query |-> <<>>, lat |-> 0, lng |-> 0,
   requests |-> 0, url |-> NoUrl, outcome |-> "none", results |-> <<>>,
   address |-> "", threw |-> FALSE]
WeatherIdle ==
  [pc |-> "idle", lat |-> NoId, lng |-> NoId, sent |-> 0, requests |-> 0,
   url |-> WeatherUrl("", ""), outcome |-> "none", status |-> 0, error |-> "",
   data |-> NoWeather]
\* LocationSearch as mounted with an empty value: the first run of the effect
\* returns at the length test; timers: the browser's pending timers; nextId: the
\* id setTimeout returns next; called: the timers that have called searchLocations;
\* awaited: the calls of searchLocations that have not returned yet
SearchIdle ==
  [value |-> <<>>, current |-> NoTimer, timers |-> {}, nextId |-> 1, now |-> 0,
   suggestions |-> "none", showSuggestions |-> FALSE, awaited |-> {},
   called |-> <<>>]
\* a browser that has never shown the app; toggled: the value the user's last
\* toggle gave the page (history)
ThemeIdle ==
  [storage |-> NoTheme, page |-> "none", state |-> InitialTheme, pending |-> <<>>,
   bodyLight |-> FALSE, toggled |-> "none"]
NotRead == [read |-> FALSE, trips |-> <<>>]

\* no MapComponent is mounted; stored: the locationCoords of the trip shown;
\* clickHandler: map.on('click', ...) was registered; locationCoords: what the
\* form's handleMapLocationSelect has kept
MapIdle ==
  [page |-> "none", stored |-> NoPoint, center |-> NoPoint,
   currentLocation |-> NoPoint, marker |-> NoPoint, clickHandler |-> FALSE,
   locationCoords |-> NoPoint]

\* useState of NewTrip; edit: the ?edit= parameter of the URL; tripCount: the
\* length fetchTripCount has read, -1 before
NewTripIdle == [tripNumber |-> DefaultTripNumber, edit |-> NoId, tripCount |-> -1]

\* no location picked; timers: the browser's pending timers; awaited: the
\* weather requests under way; picks, arrived: history
PickIdle ==
  [now |-> 0, timers |-> {}, awaited |-> {}, locationCoords |-> "none",
   weatherData |-> "none", weatherError |-> FALSE, weatherLoading |-> FALSE,
   picks |-> <<>>, arrived |-> <<>>]

\* no response body at hand
NotParsed ==
  [data |-> [file_data |-> Missing, top |-> Missing],
   by |-> [h \in Handlers |-> NotRead]]

NoHistory ==
  [solo |-> FALSE, before |-> <<>>, gets |-> 0, patches |-> 0, writes |-> 0,
   get |-> "none", shape |-> "none", patch |-> "none", snap |-> <<>>,
   absent |-> FALSE, stale |-> FALSE]

NoLast ==
  [op |-> "none", trip |-> NoTrip, id |-> "", before |-> <<>>, get |-> "none"]

\* no map is on screen, no form has loaded, no location was picked
InitPages ==
  /\ mapView = MapIdle
  /\ newtrip = [p \in Procs |-> NewTripIdle]
  /\ picked = PickIdle

\* nothing has called the lookups
InitLookups ==
  /\ InitPages
  /\ geo = GeoIdle
  /\ weather = WeatherIdle
  /\ search = SearchIdle
  /\ parsed = NotParsed

\* and no page has shown the theme
InitSide == InitLookups /\ theme = ThemeIdle

\* the trip store is configured and empty, nobody has called it
InitStore ==
  /\ serial = TRUE
  /\ cfg = [url |-> TRUE, key |-> TRUE]
  /\ doc = Present(<<>>)
  /\ req = [p \in Procs |-> Idle]
  /\ home = [p \in Procs |-> NoPage]
  /\ gh = [p \in Procs |-> NoHistory]
  /\ last = NoLast
  /\ form = [p \in Procs |-> NoTravelers]

InitQuiet == InitStore /\ InitSide

\* the store's answer is any body
InitBodies ==
  /\ InitStore /\ InitPages
  /\ geo = GeoIdle /\ weather = WeatherIdle /\ search = SearchIdle
  /\ theme = ThemeIdle
  /\ \E body \in Bodies : parsed = [NotParsed EXCEPT !.data = body]

\* a browser that has not shown the app yet, or has and kept a theme
InitTheme ==
  /\ InitStore /\ InitLookups
  /\ \E stored \in {NoTheme, "light", "dark"} :
       theme = [ThemeIdle EXCEPT !.storage = stored]

InitCommon ==
  /\ cfg \in [url : BOOLEAN, key : BOOLEAN]
  /\ doc \in {Missing, Present(<<>>)}
  /\ req = [p \in Procs |-> Idle]
  /\ home = [p \in Procs |-> NoPage]
  /\ gh = [p \in Procs |-> NoHistory]
  /\ last = NoLast
  /\ form = [p \in Procs |-> NoTravelers]
  /\ InitSide

Init == serial = TRUE /\ InitCommon

InitRace == serial = FALSE /\ InitCommon

\* ---- history bookkeeping (not program state)
Others(p) == Procs \ {p}

Quiet(p) == \A q \in Others(p) : req[q].pc = "idle"

\* p starts a request; issued: the handler reached its first fetch
StartHistory(p, issued) ==
  gh' = [q \in Procs |->
          IF q = p
          THEN [NoHistory EXCEPT
                  !.solo = Quiet(p),
                  !.before = IF Quiet(p) THEN doc.trips ELSE <<>>,
                  !.gets = IF issued THEN 1 ELSE 0]
          ELSE [gh[q] EXCEPT !.solo = FALSE, !.before = <<>>]]

\* only a read leaves the history of the write before it in place
KeepLast(op) == last' = IF op = "GET" THEN last ELSE NoLast

\* the caller consumes p's response
SetLast(p) ==
  last' = IF gh[p].solo /\ req[p].status = 200
             /\ req[p].op \in {"POST", "PUT", "DELETE"}
          THEN [op |-> req[p].op, trip |-> req[p].trip, id |-> req[p].id,
                before |-> gh[p].before, get |-> gh[p].get]
          ELSE NoLast

\* the ids of a trips array
IdsOf(trips) == {trips[i].id : i \in 1..Len(trips)}

\* the store answers p's GET: what it held then, and whether p's target was in it
Fetched(h, outcome, target) ==
  [h EXCEPT !.get = IF Parses(outcome) THEN "ok" ELSE outcome,
            !.shape = IF Parses(outcome) THEN outcome ELSE "none",
            !.snap = doc.trips,
            !.absent = target \notin IdsOf(doc.trips)]

\* p's handler issues its PATCH
Patching(h) == [h EXCEPT !.patches = @ + 1, !.shape = "none"]

\* p's handler has returned
Finished(h) == [h EXCEPT !.snap = <<>>]

\* ---- what every handler does
\* when the clients take turns, a turn is one request or one visit of the list page
CanStart(p) ==
  /\ req[p].pc = "idle"
  /\ serial => Quiet(p) /\ \A q \in Others(p) : ~home[q].mounted

Started(op, caller) == [Idle EXCEPT !.pc = "get", !.op = op, !.caller = caller]

\* the handler returns: its locals are gone, the response stays with the caller
Responded(r, status, error) ==
  [r EXCEPT !.pc = "done", !.status = status, !.error = error, !.trips = <<>>]

\* the store replaces the whole file content by the PATCH body's file_data
StorePatch(p, outcome) ==
  /\ doc' = IF outcome = "ok" THEN PatchBody(req[p].trips).file_data ELSE doc
  /\ gh' = [q \in Procs |->
              IF q = p
              THEN Finished([gh[p] EXCEPT
                               !.patch = outcome,
                               !.writes = IF outcome = "ok" THEN @ + 1 ELSE @])
              ELSE IF outcome = "ok" /\ req[q].pc = "patch"
              THEN [gh[q] EXCEPT !.stale = TRUE]
              ELSE gh[q]]

\* ---- GET /api/trips
GetBegin(p, caller) ==
  /\ IF ConfigMissing(cfg)
     THEN /\ req' = [req EXCEPT ![p] =
                       Responded(Started("GET", caller), 500,
                                 "Server configuration error")]
          /\ StartHistory(p, FALSE)
     ELSE /\ req' = [req EXCEPT ![p] = Started("GET", caller)]
          /\ StartHistory(p, TRUE)
  /\ KeepLast("GET")

ListCall(p) ==
  /\ CanStart(p) /\ ~home[p].mounted
  /\ GetBegin(p, "api")
  /\ UNCHANGED <<side, form, cfg, serial, doc, home>>

ListResume(p) ==
  /\ req[p].pc = "get" /\ req[p].op = "GET"
  /\ \E outcome \in GetOutcomes :
       /\ gh' = [gh EXCEPT ![p] = Finished(Fetched(@, outcome, ""))]
       /\ req' = [req EXCEPT ![p] =
                    IF ResponseOk(outcome) /\ Parses(outcome)
                    THEN [Responded(@, 200, "") EXCEPT
                            !.out = GetTrips(StoreBody(outcome, doc))]
                    ELSE Responded(@, 500, "Failed to fetch trips")]
  /\ UNCHANGED <<side, form, cfg, serial, doc, home, last>>

\* ---- GET /api/trips/count
CountCall(p) ==
  /\ CanStart(p) /\ ~home[p].mounted
  /\ IF ~cfg.url
     THEN \* fetch(undefined) rejects before any request is made
          /\ req' = [req EXCEPT ![p] =
                       [Responded(Started("COUNT", "api"), 200, "") EXCEPT
                          !.count = 0, !.nextTripNumber = 1]]
          /\ StartHistory(p, FALSE)
     ELSE /\ req' = [req EXCEPT ![p] = Started("COUNT", "api")]
          /\ StartHistory(p, TRUE)
  /\ KeepLast("COUNT")
  /\ UNCHANGED <<side, form, cfg, serial, doc, home>>

CountResume(p) ==
  /\ req[p].pc = "get" /\ req[p].op = "COUNT"
  /\ \E outcome \in GetOutcomes :
       /\ gh' = [gh EXCEPT ![p] = Finished(Fetched(@, outcome, ""))]
       /\ LET tripCount == IF ResponseOk(outcome) /\ Parses(outcome)
                           THEN CountTrips(StoreBody(outcome, doc))
                           ELSE 0
          IN req' = [req EXCEPT ![p] =
                       [Responded(@, 200, "") EXCEPT
                          !.count = tripCount, !.nextTripNumber = tripCount + 1]]
  /\ UNCHANGED <<side, form, cfg, serial, doc, home, last>>

\* ---- POST /api/trips
PostBegin(p, tripData) ==
  /\ IF ConfigMissing(cfg)
     THEN /\ req' = [req EXCEPT ![p] =
                       Responded([Started("POST", "newtrip") EXCEPT !.trip = tripData],
                                 500, "Server configuration error")]
          /\ StartHistory(p, FALSE)
     ELSE /\ req' = [req EXCEPT ![p] =
                       [Started("POST", "newtrip") EXCEPT !.trip = tripData]]
          /\ StartHistory(p, TRUE)
  /\ KeepLast("POST")

\* newtrip/page.tsx saveTrip: id and createdAt are read from the wall clock of the
\* device showing the form (Date.now(), new Date()); two saves can read the same
\* millisecond
saveTrip(p) ==
  /\ CanStart(p) /\ ~home[p].mounted
  /\ Len(doc.trips)
       + Cardinality({q \in Others(p) : req[q].op = "POST" /\ req[q].pc # "done"})
       < MaxTrips
  /\ \E now \in ClockValues, origin \in Origins :
       PostBegin(p, [WithTravelers(MkTrip(SaveId(newtrip[p].edit, now), origin, now),
                                   FilterTravelers(form[p]))
                       EXCEPT !.tripNumber = newtrip[p].tripNumber])
  /\ UNCHANGED <<side, form, cfg, serial, doc, home>>

PostResume(p) ==
  /\ req[p].pc = "get" /\ req[p].op = "POST"
  /\ Len(doc.trips) < MaxTrips
  /\ \E outcome \in GetOutcomes :
       IF PostAborts(outcome)
       THEN /\ req' = [req EXCEPT ![p] = Responded(@, 500, "Failed to save trip")]
            /\ gh' = [gh EXCEPT ![p] = Finished(Fetched(@, outcome, req[p].trip.id))]
       ELSE LET existing == IF ResponseOk(outcome) /\ Parses(outcome)
                            THEN PostExisting(StoreBody(outcome, doc))
                            ELSE <<>>
            IN /\ req' = [req EXCEPT ![p].pc = "patch",
                                     ![p].trips = PostPush(existing, req[p].trip)]
               /\ gh' = [gh EXCEPT ![p] = Patching(Fetched(@, outcome, req[p].trip.id))]
  /\ UNCHANGED <<side, form, cfg, serial, doc, home, last>>

PostFinish(p) ==
  /\ req[p].pc = "patch" /\ req[p].op = "POST"
  /\ \E outcome \in PatchOutcomes :
       /\ StorePatch(p, outcome)
       /\ req' = [req EXCEPT ![p] =
                    IF outcome = "throws" \/ PatchFailed(outcome)
                    THEN Responded(@, 500, "Failed to save trip")
                    ELSE Responded(@, 200, "")]
  /\ UNCHANGED <<side, form, cfg, serial, home, last>>

\* ---- PUT /api/trips
PutBegin(p, updatedTrip) ==
  /\ IF ConfigMissing(cfg)
     THEN /\ req' = [req EXCEPT ![p] =
                       Responded([Started("PUT", "api") EXCEPT !.trip = updatedTrip],
                                 500, "Server configuration error")]
          /\ StartHistory(p, FALSE)
     ELSE /\ req' = [req EXCEPT ![p] =
                       [Started("PUT", "api") EXCEPT !.trip = updatedTrip]]
          /\ StartHistory(p, TRUE)
  /\ KeepLast("PUT")

PutCall(p) ==
  /\ CanStart(p) /\ ~home[p].mounted
  /\ \E updatedTrip \in TripBodies : PutBegin(p, updatedTrip)
  /\ UNCHANGED <<side, form, cfg, serial, doc, home>>

PutResume(p) ==
  /\ req[p].pc = "get" /\ req[p].op = "PUT"
  /\ \E outcome \in GetOutcomes :
       IF ~(ResponseOk(outcome) /\ Parses(outcome))
       THEN /\ req' = [req EXCEPT ![p] = Responded(@, 500, "Failed to update trip")]
            /\ gh' = [gh EXCEPT ![p] = Finished(Fetched(@, outcome, req[p].trip.id))]
       ELSE LET trips == PutTrips(StoreBody(outcome, doc))
                tripIndex == PutFindIndex(trips, req[p].trip.id)
            IN IF PutNotFound(tripIndex)
               THEN /\ req' = [req EXCEPT ![p] = Responded(@, 404, "Trip not found")]
                    /\ gh' = [gh EXCEPT ![p] =
                                Finished(Fetched(@, outcome, req[p].trip.id))]
               ELSE /\ req' = [req EXCEPT
                                 ![p].pc = "patch",
                                 ![p].trips = PutReplace(trips, tripIndex, req[p].trip)]
                    /\ gh' = [gh EXCEPT ![p] =
                                Patching(Fetched(@, outcome, req[p].trip.id))]
  /\ UNCHANGED <<side, form, cfg, serial, doc, home, last>>

PutFinish(p) ==
  /\ req[p].pc = "patch" /\ req[p].op = "PUT"
  /\ \E outcome \in PatchOutcomes :
       /\ StorePatch(p, outcome)
       /\ req' = [req EXCEPT ![p] =
                    IF outcome = "throws" \/ PatchFailed(outcome)
                    THEN Responded(@, 500, "Failed to update trip")
                    ELSE Responded(@, 200, "")]
  /\ UNCHANGED <<side, form, cfg, serial, home, last>>

\* ---- DELETE /api/trips?id=
DeleteBegin(p, tripId, caller) ==
  /\ IF ConfigMissing(cfg)
     THEN /\ req' = [req EXCEPT ![p] =
                       Responded([Started("DELETE", caller) EXCEPT !.id = tripId],
                                 500, "Server configuration error")]
          /\ StartHistory(p, FALSE)
     ELSE IF Falsy(tripId)
     THEN /\ req' = [req EXCEPT ![p] =
                       Responded([Started("DELETE", caller) EXCEPT !.id = tripId],
                                 400, "Trip ID is required")]
          /\ StartHistory(p, FALSE)
     ELSE /\ req' = [req EXCEPT ![p] =
                       [Started("DELETE", caller) EXCEPT !.id = tripId]]
          /\ StartHistory(p, TRUE)
  /\ KeepLast("DELETE")

DeleteCall(p) ==
  /\ CanStart(p) /\ ~home[p].mounted
  /\ \E tripId \in DeleteIds : DeleteBegin(p, tripId, "api")
  /\ UNCHANGED <<side, form, cfg, serial, doc, home>>

DeleteResume(p) ==
  /\ req[p].pc = "get" /\ req[p].op = "DELETE"
  /\ \E outcome \in GetOutcomes :
       IF ~(ResponseOk(outcome) /\ Parses(outcome))
       THEN /\ req' = [req EXCEPT ![p] = Responded(@, 500, "Failed to delete trip")]
            /\ gh' = [gh EXCEPT ![p] = Finished(Fetched(@, outcome, req[p].id))]
       ELSE LET fetched == DeleteTrips(StoreBody(outcome, doc))
                originalLength == Len(fetched)
                trips == DeleteFilter(fetched, req[p].id)
            IN IF DeleteNotFound(trips, originalLength)
               THEN /\ req' = [req EXCEPT ![p] = Responded(@, 404, "Trip not found")]
                    /\ gh' = [gh EXCEPT ![p] = Finished(Fetched(@, outcome, req[p].id))]
               ELSE /\ req' = [req EXCEPT ![p].pc = "patch", ![p].trips = trips]
                    /\ gh' = [gh EXCEPT ![p] = Patching(Fetched(@, outcome, req[p].id))]
  /\ UNCHANGED <<side, form, cfg, serial, doc, home, last>>

DeleteFinish(p) ==
  /\ req[p].pc = "patch" /\ req[p].op = "DELETE"
  /\ \E outcome \in PatchOutcomes :
       /\ StorePatch(p, outcome)
       /\ req' = [req EXCEPT ![p] =
                    IF outcome = "throws" \/ PatchFailed(outcome)
                    THEN Responded(@, 500, "Failed to delete trip")
                    ELSE Responded(@, 200, "")]
  /\ UNCHANGED <<side, form, cfg, serial, home, last>>

\* ---- a caller outside the pages (or the new-trip form) takes the response
Return(p) ==
  /\ req[p].pc = "done" /\ req[p].caller \notin {"home", "form"}
  /\ SetLast(p)
  /\ req' = [req EXCEPT ![p] = Idle]
  /\ gh' = [gh EXCEPT ![p] = NoHistory]
  /\ form' = [form EXCEPT ![p] =
                IF req[p].caller = "newtrip" /\ req[p].status = 200
                THEN NoTravelers  \* router.push('/'): the form is gone
                ELSE @]
  /\ UNCHANGED <<side, cfg, serial, doc, home>>

\* ---- app/newtrip/page.tsx: the form is opened, from the menu or through the
\* detail page's Edit button (router.push(`/newtrip?edit=${trip.id}`)); its mount
\* effect calls fetchTripCount, which lists the trips
formLoad(p) ==
  /\ CanStart(p) /\ ~home[p].mounted
  /\ \E edit \in EditParams :
       /\ edit # NoId => edit \in IdsOf(doc.trips)  \* the Edit button of a trip shown
       /\ newtrip' = [newtrip EXCEPT ![p] = [NewTripIdle EXCEPT !.edit = edit]]
  /\ GetBegin(p, "form")
  /\ UNCHANGED <<geo, weather, search, theme, parsed, mapView, picked,
                 form, cfg, serial, doc, home>>

\* fetchTripCount after the await: response.ok sets the trip number, anything
\* else keeps the default
fetchTripCountDone(p) ==
  /\ req[p].pc = "done" /\ req[p].caller = "form"
  /\ newtrip' = [newtrip EXCEPT ![p] =
                   IF req[p].status = 200
                   THEN [@ EXCEPT !.tripNumber = NextTripNumber(req[p].out),
                                  !.tripCount = Len(req[p].out)]
                   ELSE @]
  /\ SetLast(p)
  /\ req' = [req EXCEPT ![p] = Idle]
  /\ gh' = [gh EXCEPT ![p] = NoHistory]
  /\ UNCHANGED <<geo, weather, search, theme, parsed, mapView, picked,
                 form, cfg, serial, doc, home>>

\* ---- app/newtrip/page.tsx: the travelers of the form
OnForm(p) == req[p].pc = "idle" /\ ~home[p].mounted

addTraveler(p) ==
  /\ OnForm(p) /\ Len(form[p]) < MaxTravelers
  /\ \E now \in ClockValues :
       form' = [form EXCEPT ![p] = Append(@, MkTraveler(NumberToString(now), <<>>))]
  /\ UNCHANGED <<side, tripVars>>

removeTraveler(p) ==
  /\ OnForm(p)
  /\ \E id \in {form[p][i].id : i \in 1..Len(form[p])} :
       form' = [form EXCEPT ![p] = LET Keep(t) == t.id # id IN SelectSeq(@, Keep)]
  /\ UNCHANGED <<side, tripVars>>

updateTravelerName(p) ==
  /\ OnForm(p)
  /\ \E id \in {form[p][i].id : i \in 1..Len(form[p])}, name \in NameValues :
       form' = [form EXCEPT ![p] =
                  [i \in 1..Len(@) |->
                     IF @[i].id = id THEN [@[i] EXCEPT !.name = name] ELSE @[i]]]
  /\ UNCHANGED <<side, tripVars>>

\* a caller of the API changes the travelers of a trip
PutTravelersCall(p) ==
  /\ CanStart(p) /\ ~home[p].mounted
  /\ \E updatedTrip \in TravelerBodies : PutBegin(p, updatedTrip)
  /\ UNCHANGED <<side, form, cfg, serial, doc, home>>

\* ---- utils/geocoding.ts
GeoReturned(g, results, address) ==
  [g EXCEPT !.pc = "done", !.results = results, !.address = address]

\* a slip: the catch sends the request once more
GeoRaisedRetry(g, stage, caught) ==
  [g EXCEPT !.pc = "fetch", !.requests = @ + 1]

\* an error raised at this stage: caught when the stage is inside try { }
GeoRaised(g, stage, caught) ==
  IF GeoInTry(stage) THEN caught ELSE [g EXCEPT !.pc = "done", !.threw = TRUE]

searchLocations(query) ==
  /\ geo.pc \in {"idle", "done"}
  /\ LET g == [GeoIdle EXCEPT !.fn = "searchLocations", !.query = query]
     IN geo' = IF TooShort(query) THEN GeoReturned(g, <<>>, "")
               ELSE IF EncodeURIComponentThrows(query)
               THEN GeoRaised(g, "encode", GeoReturned(g, <<>>, ""))
               ELSE [g EXCEPT !.pc = "fetch", !.requests = 1,
                              !.url = SearchUrl(query)]
  /\ UNCHANGED <<pages, tripVars, form, weather, search, theme, parsed>>

searchLocationsCall == \E query \in Queries : searchLocations(query)

searchLocationsResume ==
  /\ geo.pc = "fetch" /\ geo.fn = "searchLocations"
  /\ \E outcome \in GeoOutcomes \ {"ok_noname"}, matches \in 0..MaxPlaces :
       LET g == [geo EXCEPT !.outcome = outcome]
           stage == GeoStage(outcome, geo.url)
       IN geo' = IF stage # "none"
                 THEN GeoRaised(g, stage, GeoReturned(g, <<>>, ""))
                 ELSE GeoReturned(g, SearchReturn(GeoBody(outcome, geo.url, matches)),
                                  "")
  /\ UNCHANGED <<pages, tripVars, form, weather, search, theme, parsed>>

reverseGeocode(lat, lng) ==
  /\ geo.pc \in {"idle", "done"}
  /\ geo' = [GeoIdle EXCEPT !.fn = "reverseGeocode", !.lat = lat, !.lng = lng,
                            !.pc = "fetch", !.requests = 1,
                            !.url = ReverseUrl(lat, lng)]
  /\ UNCHANGED <<pages, tripVars, form, weather, search, theme, parsed>>

reverseGeocodeCall == \E lat \in Coords, lng \in Coords : reverseGeocode(lat, lng)

reverseGeocodeResume ==
  /\ geo.pc = "fetch" /\ geo.fn = "reverseGeocode"
  /\ \E outcome \in GeoOutcomes :
       LET g == [geo EXCEPT !.outcome = outcome]
           stage == GeoStage(outcome, geo.url)
       IN geo' = IF stage # "none"
                 THEN GeoRaised(g, stage,
                                GeoReturned(g, <<>>, ReverseCaught(geo.lat, geo.lng)))
                 ELSE GeoReturned(g, <<>>,
                                  ReverseReturn(GeoBody(outcome, geo.url, 0),
                                                geo.lat, geo.lng))
  /\ UNCHANGED <<pages, tripVars, form, weather, search, theme, parsed>>

\* ---- GET /api/weather
weatherGET(lat, lng) ==
  /\ weather.pc \in {"idle", "done"}
  /\ weather.requests < MaxWeatherRequests
  /\ LET w == [WeatherIdle EXCEPT !.lat = lat, !.lng = lng,
                                  !.requests = weather.requests]
     IN weather' =
          IF WeatherMissing(lat, lng)
          THEN [w EXCEPT !.pc = "done", !.status = 400,
                         !.error = "Latitude and longitude are required"]
          ELSE [w EXCEPT !.pc = "fetch", !.sent = 1, !.requests = @ + 1,
                         !.url = WeatherUrl(lat, lng)]
  /\ UNCHANGED <<pages, tripVars, form, geo, search, theme, parsed>>

weatherCall == \E lat \in WeatherParams, lng \in WeatherParams : weatherGET(lat, lng)

weatherResume ==
  /\ weather.pc = "fetch"
  /\ \E outcome \in WeatherOutcomes, temperature \in Temperatures :
       /\ outcome \in {"ok", "ok_malformed"} => ForecastAccepts(weather.url)
       /\ weather' =
            IF outcome = "throws" \/ WeatherFailed(outcome)
               \/ outcome \in {"bad_json", "ok_malformed"}
            THEN [weather EXCEPT !.pc = "done", !.outcome = outcome, !.status = 500,
                                 !.error = "Failed to fetch weather data"]
            ELSE [weather EXCEPT !.pc = "done", !.outcome = outcome, !.status = 200,
                                 !.data = WeatherData(weather.url, temperature)]
  /\ UNCHANGED <<pages, tripVars, form, geo, search, theme, parsed>>

\* ---- LocationSearch: useEffect(..., [value])
\* the value changes: the cleanup of the effect's last run, then the effect
changeValue(value) ==
  /\ value # search.value
  /\ SearchTooShort(value) \/ search.nextId <= MaxTimers
  /\ LET cleaned == ClearTimeout(search.timers, search.current)
         cleared == ClearTimeout(cleaned, search.current)
     IN search' =
          IF SearchTooShort(value)
          THEN [search EXCEPT !.value = value, !.timers = cleared,
                              !.suggestions = "empty",
                              !.showSuggestions = FALSE]
          ELSE [search EXCEPT !.value = value,
                              !.timers = SetTimeout(cleared, search.nextId,
                                                    search.now, value),
                              !.current = search.nextId,
                              !.nextId = @ + 1]
  /\ UNCHANGED <<pages, tripVars, form, geo, weather, theme, parsed>>

inputChange == \E value \in SearchValues : changeValue(value)

\* a timer is due: its callback calls searchLocations with the value it was set for
searchTimerFires ==
  /\ \E t \in search.timers :
       /\ t.due <= search.now
       /\ search' = [search EXCEPT !.timers = @ \ {t},
                                   !.called = Append(@, t.id),
                                   !.awaited = @ \cup {t.id}]
  /\ UNCHANGED <<pages, tripVars, form, geo, weather, theme, parsed>>

\* searchLocations returns to the callback that awaits it, with places or with
\* none: setSuggestions(results); setShowSuggestions(true)
searchReturns ==
  /\ \E id \in search.awaited, results \in {"empty", "results"} :
       search' = [search EXCEPT !.awaited = @ \ {id},
                                !.suggestions = results,
                                !.showSuggestions = TRUE]
  /\ UNCHANGED <<pages, tripVars, form, geo, weather, theme, parsed>>

\* time passes; a timer that is due runs before the clock moves on
searchTick ==
  /\ search.now < MaxTicks * TickStep
  /\ \A t \in search.timers : t.due > search.now
  /\ search' = [search EXCEPT !.now = @ + TickStep]
  /\ UNCHANGED <<pages, tripVars, form, geo, weather, theme, parsed>>

\* ---- MapComponent on the detail page and on the form
\* the component mounts: the init effect registers the click handler when a
\* handler was passed, the [center, zoom] effect puts the marker on the centre
mapMount ==
  /\ mapView.page = "none"
  /\ \E page \in MapPages, stored \in MapPoints :
       LET center == IF page = "trip" THEN stored ELSE DefaultCenter
       IN mapView' = [MapIdle EXCEPT
                        !.page = page,
                        !.stored = IF page = "trip" THEN stored ELSE NoPoint,
                        !.center = center,
                        !.currentLocation = center,
                        !.marker = center,
                        !.clickHandler = HandlerGiven(page)]
  /\ UNCHANGED <<tripVars, form, geo, weather, search, theme, parsed, newtrip, picked>>

\* a click on the map: onLocationSelect(lat, lng), setCurrentLocation, the
\* marker is replaced by one at the place clicked
mapClick ==
  /\ mapView.page # "none"
  /\ \E point \in MapPoints :
       mapView' =
         IF mapView.clickHandler
         THEN [mapView EXCEPT
                 !.locationCoords = IF mapView.page = "newtrip" THEN point ELSE @,
                 !.currentLocation = point,
                 !.marker = point]
         ELSE mapView
  /\ UNCHANGED <<tripVars, form, geo, weather, search, theme, parsed, newtrip, picked>>

\* the form picks a location: setMapCenter, and the [center, zoom] effect moves
\* the view, currentLocation and the marker there; the detail page sets its
\* centre once, before the map is shown
mapRecenter ==
  /\ mapView.page = "newtrip"
  /\ \E point \in MapPoints :
       mapView' = [mapView EXCEPT !.center = point, !.currentLocation = point,
                                  !.marker = point]
  /\ UNCHANGED <<tripVars, form, geo, weather, search, theme, parsed, newtrip, picked>>

\* the page is left
mapUnmount ==
  /\ mapView.page # "none"
  /\ mapView' = MapIdle
  /\ UNCHANGED <<tripVars, form, geo, weather, search, theme, parsed, newtrip, picked>>

\* ---- app/newtrip/page.tsx: a location is picked from the search box
\* handleLocationSelectWithWeather
pickLocation ==
  /\ Len(picked.picks) < MaxPicks
  /\ \E location \in Origins :
       picked' = [picked EXCEPT
                    !.locationCoords = location,
                    !.picks = Append(@, location),
                    !.timers = ScheduleWeather(@, Len(picked.picks) + 1, location,
                                               picked.now)]
  /\ UNCHANGED <<tripVars, form, geo, weather, search, theme, parsed, mapView, newtrip>>

\* a timer is due: fetchWeatherData up to the await of fetch
weatherTimerFires ==
  /\ \E t \in picked.timers :
       /\ t.due <= picked.now
       /\ picked' = [picked EXCEPT
                      !.timers = @ \ {t},
                      !.weatherLoading = TRUE,
                      !.weatherError = FALSE,
                      !.awaited = @ \cup {[id |-> t.id, location |-> t.location,
                                           sent |-> picked.now]}]
  /\ UNCHANGED <<tripVars, form, geo, weather, search, theme, parsed, mapView, newtrip>>

\* the route answers one of the requests under way, in any order
weatherReturns ==
  /\ \E a \in picked.awaited, ok \in BOOLEAN :
       picked' = [picked EXCEPT
                    !.awaited = @ \ {a},
                    !.weatherData = IF ok THEN a.location ELSE @,
                    !.weatherError = IF ok THEN @ ELSE TRUE,
                    !.weatherLoading = FALSE,
                    !.arrived = Append(@, [id |-> a.id, ok |-> ok])]
  /\ UNCHANGED <<tripVars, form, geo, weather, search, theme, parsed, mapView, newtrip>>

\* time passes; a timer that is due runs before the clock moves on
weatherTick ==
  /\ picked.now < MaxTicks * TickStep
  /\ \A t \in picked.timers : t.due > picked.now
  /\ picked' = [picked EXCEPT !.now = @ + 2 * TickStep]
  /\ UNCHANGED <<tripVars, form, geo, weather, search, theme, parsed, mapView, newtrip>>

\* ---- the theme
\* a page is loaded: the first render with the initial state, then its effects
pageLoad ==
  /\ theme.page = "none"
  /\ \E page \in ThemePages :
       theme' = MountEffects([theme EXCEPT !.page = page, !.state = InitialTheme,
                                          !.pending = <<>>])
  /\ UNCHANGED <<pages, tripVars, form, geo, weather, search, parsed>>

\* the click on the sun or moon button
toggleTheme ==
  /\ theme.page # "none" /\ Len(theme.pending) < MaxPending
  /\ theme' = [theme EXCEPT !.pending = Append(@, "toggle")]
  /\ UNCHANGED <<pages, tripVars, form, geo, weather, search, parsed>>

\* React renders the queued updates; the [theme] effect runs when theme changed
themeRender ==
  /\ theme.page # "none" /\ theme.pending # <<>>
  /\ LET next == ApplyUpdates(theme.state, theme.pending)
         shown == [theme EXCEPT
                     !.state = next, !.pending = <<>>,
                     !.toggled = IF \E i \in 1..Len(theme.pending) :
                                       theme.pending[i] = "toggle"
                                 THEN next ELSE @]
     IN theme' = IF next # theme.state THEN SaveTheme(shown) ELSE shown
  /\ UNCHANGED <<pages, tripVars, form, geo, weather, search, parsed>>

\* the tab is closed or reloaded, or the user leaves for another page: the
\* component's state and its queued updates are gone
pageClose ==
  /\ theme.page # "none"
  /\ theme' = [theme EXCEPT !.page = "none", !.state = InitialTheme,
                            !.pending = <<>>]
  /\ UNCHANGED <<pages, tripVars, form, geo, weather, search, parsed>>

\* ---- route.ts: a handler reads the trips out of the body it was answered
readTrips(handler) ==
  /\ ~parsed.by[handler].read
  /\ parsed' = [parsed EXCEPT !.by[handler] =
                   [read |-> TRUE, trips |-> TripsReadBy(handler, parsed.data)]]
  /\ UNCHANGED <<pages, tripVars, form, geo, weather, search, theme>>

handlerReads == \E handler \in Handlers : readTrips(handler)

\* ---- app/page.tsx, Home
\* the page mounts: useEffect(() => { fetchTrips() }, []); one list page is open
\* at a time, the other client works through the form or the routes
HomeMount(p) ==
  /\ CanStart(p) /\ \A q \in Procs : ~home[q].mounted
  /\ home' = [home EXCEPT ![p] = [NoPage EXCEPT !.mounted = TRUE]]
  /\ GetBegin(p, "home")
  /\ UNCHANGED <<side, form, cfg, serial, doc>>

\* fetchTrips, response.ok
FetchTripsOk(h, tripsData) ==
  [h EXCEPT !.trips = SortNewestFirst(tripsData), !.error = "", !.loading = FALSE]

\* a slip: the catch forgets setError
FetchTripsFailedSilently(h) == [h EXCEPT !.loading = FALSE]

\* fetchTrips, catch and finally
FetchTripsFailed(h) ==
  [h EXCEPT !.error = "Failed to load trips", !.loading = FALSE]

fetchTripsDone(p) ==
  /\ req[p].pc = "done" /\ req[p].caller = "home" /\ req[p].op = "GET"
  /\ home' = [home EXCEPT ![p] =
                IF req[p].status = 200
                THEN FetchTripsOk(@, req[p].out)
                ELSE FetchTripsFailed(@)]
  /\ SetLast(p)
  /\ req' = [req EXCEPT ![p] = Idle]
  /\ gh' = [gh EXCEPT ![p] = NoHistory]
  /\ UNCHANGED <<side, form, cfg, serial, doc>>

\* confirmDelete: DELETE the trip the modal was opened for, one of those on screen
confirmDelete(p) ==
  /\ CanStart(p) /\ home[p].mounted /\ ~home[p].loading
  /\ \E tripId \in IdsOf(home[p].trips) : DeleteBegin(p, tripId, "home")
  /\ UNCHANGED <<side, form, cfg, serial, doc, home>>

confirmDeleteDone(p) ==
  /\ req[p].pc = "done" /\ req[p].caller = "home" /\ req[p].op = "DELETE"
  /\ home' = [home EXCEPT ![p].trips =
                IF req[p].status = 200
                THEN LET Keep(t) == t.id # req[p].id IN SelectSeq(@, Keep)
                ELSE @]
  /\ SetLast(p)
  /\ req' = [req EXCEPT ![p] = Idle]
  /\ gh' = [gh EXCEPT ![p] = NoHistory]
  /\ UNCHANGED <<side, form, cfg, serial, doc>>

\* the user navigates away from the list page
HomeLeave(p) ==
  /\ req[p].pc = "idle" /\ home[p].mounted
  /\ home' = [home EXCEPT ![p] = NoPage]
  /\ UNCHANGED <<side, form, cfg, serial, doc, req, gh, last>>

Next ==
  \E p \in Procs :
    \/ ListCall(p) \/ ListResume(p)
    \/ CountCall(p) \/ CountResume(p)
    \/ saveTrip(p) \/ PostResume(p) \/ PostFinish(p)
    \/ PutCall(p) \/ PutResume(p) \/ PutFinish(p)
    \/ DeleteCall(p) \/ DeleteResume(p) \/ DeleteFinish(p)
    \/ Return(p)
    \/ HomeMount(p) \/ fetchTripsDone(p)
    \/ confirmDelete(p) \/ confirmDeleteDone(p)
    \/ HomeLeave(p)

\* the clients take turns
Spec == Init /\ [][Next]_vars

\* the clients' requests interleave
SpecRace == InitRace /\ [][Next]_vars

\* the new-trip form and the writes that carry travelers
NextForm ==
  \E p \in Procs :
    \/ addTraveler(p) \/ updateTravelerName(p) \/ removeTraveler(p)
    \/ saveTrip(p) \/ PostResume(p) \/ PostFinish(p)
    \/ PutTravelersCall(p) \/ PutResume(p) \/ PutFinish(p)
    \/ Return(p)

SpecForm == Init /\ [][NextForm]_vars

\* the calls of utils/geocoding.ts
NextGeo ==
  \/ searchLocationsCall \/ searchLocationsResume
  \/ reverseGeocodeCall \/ reverseGeocodeResume

SpecGeo == InitQuiet /\ [][NextGeo]_vars

\* the requests to GET /api/weather
NextWeather == weatherCall \/ weatherResume

SpecWeather == InitQuiet /\ [][NextWeather]_vars

\* the location search box
NextSearch == inputChange \/ searchTimerFires \/ searchReturns \/ searchTick

SpecSearch == InitQuiet /\ [][NextSearch]_vars

\* the store, the geocoding client and the weather route in one run; they share
\* no state, so a run uses one of them at a time: a lookup starts while the
\* store is untouched, the store is called while no lookup has been made
StoreAtRest ==
  /\ \A p \in Procs : req[p] = Idle /\ home[p] = NoPage /\ gh[p] = NoHistory
  /\ doc.trips = <<>> /\ last = NoLast

NextCalls ==
  \/ geo = GeoIdle /\ weather = WeatherIdle /\ Next
  \/ StoreAtRest /\ weather = WeatherIdle /\ NextGeo
  \/ StoreAtRest /\ geo = GeoIdle /\ NextWeather

SpecCalls == Init /\ [][NextCalls]_vars

\* a map on the detail page or on the form
NextMap == mapMount \/ mapClick \/ mapRecenter \/ mapUnmount

SpecMap == InitQuiet /\ [][NextMap]_vars

\* the new-trip form from its load to its save
NextNewTrip ==
  \E p \in Procs :
    \/ formLoad(p) \/ ListResume(p) \/ fetchTripCountDone(p)
    \/ saveTrip(p) \/ PostResume(p) \/ PostFinish(p)
    \/ Return(p)

SpecNewTrip == InitQuiet /\ [][NextNewTrip]_vars

\* the weather fetches of the locations picked on the form
NextPicked == pickLocation \/ weatherTimerFires \/ weatherReturns \/ weatherTick

SpecPicked == InitQuiet /\ [][NextPicked]_vars

\* the four handlers reading one response body
NextBodies == handlerReads

SpecBodies == InitBodies /\ [][NextBodies]_vars

\* the theme across page loads
NextTheme == pageLoad \/ toggleTheme \/ themeRender \/ pageClose

SpecTheme == InitTheme /\ [][NextTheme]_vars

\* ---- the properties checked

\* how often x occurs in seq
CountOf(seq, x) == Cardinality({i \in 1..Len(seq) : seq[i] = x})

\* the first position of an entry with this id, 0 when there is none
FirstIndexOf(seq, id) ==
  IF \E i \in 1..Len(seq) : seq[i].id = id
  THEN CHOOSE i \in 1..Len(seq) :
         seq[i].id = id /\ \A j \in 1..(i - 1) : seq[j].id # id
  ELSE 0

\* seq with the first entry carrying t's id replaced by t
Replaced(seq, t) ==
  [i \in 1..Len(seq) |-> IF i = FirstIndexOf(seq, t.id) THEN t ELSE seq[i]]

RECURSIVE Without(_, _)
\* seq without the entries carrying this id
Without(seq, id) ==
  IF seq = <<>> THEN <<>>
  ELSE IF Head(seq).id = id THEN Without(Tail(seq), id)
  ELSE <<Head(seq)>> \o Without(Tail(seq), id)

\* p holds the response of a successful List that ran alone, right after the
\* successful write `last`, which ran alone too
ListedAfter(p, op) ==
  /\ req[p].pc = "done" /\ req[p].op = "GET" /\ req[p].status = 200
  /\ gh[p].solo
  /\ last.op = op

\* C1: a successful Create followed by List with nothing in between: the listed
\* collection holds exactly one entry equal to the created trip and is exactly one
\* longer than the collection was before the Create
C1_CreateThenList ==
  \A p \in Procs :
    ListedAfter(p, "POST") =>
      /\ CountOf(req[p].out, last.trip) = 1
      /\ Len(req[p].out) = Len(last.before) + 1

\* C2: a successful Update followed by List: the new value stands where the trip
\* with that id stood, the length is unchanged, every other entry and the order
\* are unchanged
C2_UpdateThenList ==
  \A p \in Procs :
    ListedAfter(p, "PUT") =>
      /\ FirstIndexOf(last.before, last.trip.id) # 0
      /\ req[p].out = Replaced(last.before, last.trip)
      /\ Len(req[p].out) = Len(last.before)

\* C2 witness: an Update changed the second of two trips, and List shows it
C2_Witness ==
  \E p \in Procs :
    /\ ListedAfter(p, "PUT")
    /\ Len(last.before) = 2
    /\ req[p].out[2] = last.trip
    /\ last.before[2] # last.trip
    /\ req[p].out[1] = last.before[1]

\* C3: a successful Delete of an id in the collection followed by List: no listed
\* entry has the id, and the list is exactly one shorter than before the Delete
C3_DeleteThenList ==
  \A p \in Procs :
    ListedAfter(p, "DELETE") =>
      /\ last.id \notin IdsOf(req[p].out)
      /\ Len(req[p].out) = Len(last.before) - 1

\* C4: Update and Delete of an id that is not in the fetched collection answer 404
\* and issue no PATCH; the store's document is what it was
C4_AbsentIsNotFound ==
  \A p \in Procs :
    (/\ req[p].pc = "done" /\ req[p].op \in {"PUT", "DELETE"}
     /\ gh[p].get = "ok" /\ gh[p].absent) =>
      /\ req[p].status = 404 /\ req[p].error = "Trip not found"
      /\ gh[p].patches = 0 /\ gh[p].writes = 0
      /\ gh[p].solo => doc.trips = gh[p].before

\* C4 witness: a Delete or Update of an id missing from a non-empty collection
C4_Witness ==
  \E p \in Procs :
    /\ req[p].pc = "done" /\ req[p].op \in {"PUT", "DELETE"}
    /\ gh[p].get = "ok" /\ gh[p].absent
    /\ req[p].status = 404
    /\ doc.trips # <<>>

\* C5 as stated: Create answers 500 with the save error whenever the store's GET or
\* the store's PATCH answers with a non-success status
C5_SaveErrorOnGetOrPatch ==
  \A p \in Procs :
    (/\ req[p].pc = "done" /\ req[p].op = "POST"
     /\ (gh[p].get = "bad_status" \/ gh[p].patch = "bad_status")) =>
      req[p].status = 500 /\ req[p].error = "Failed to save trip"

\* C5 amended: Create answers 500 with the save error whenever the store's PATCH
\* answers with a non-success status; a non-success GET alone does not fail it, the
\* Create then answers success once its PATCH succeeds
C5_SaveErrorOnPatch ==
  \A p \in Procs :
    (req[p].pc = "done" /\ req[p].op = "POST") =>
      /\ gh[p].patch = "bad_status" =>
           req[p].status = 500 /\ req[p].error = "Failed to save trip"
      /\ (gh[p].get = "bad_status" /\ gh[p].patch = "ok") => req[p].status = 200

\* C5 witness: the GET succeeded, the PATCH was refused, Create answered 500
C5_Witness ==
  \E p \in Procs :
    /\ req[p].pc = "done" /\ req[p].op = "POST"
    /\ gh[p].get = "ok" /\ gh[p].patch = "bad_status"
    /\ req[p].status = 500

\* what q's PATCH has to carry when computed from the document q fetched
WriteOf(q) ==
  IF req[q].op = "POST"
  THEN (IF gh[q].get = "ok" THEN gh[q].snap ELSE <<>>) \o <<req[q].trip>>
  ELSE IF req[q].op = "PUT" THEN Replaced(gh[q].snap, req[q].trip)
  ELSE Without(gh[q].snap, req[q].id)

\* C6: when q's GET came before another operation's successful PATCH and q's PATCH
\* after it, the document after q's PATCH is q's change applied to what q fetched:
\* the other operation's change is gone, although it answered success
C6_LastPatchWins ==
  [][/\ \A q \in Procs :
          (/\ req[q].pc = "patch" /\ gh[q].stale
           /\ req'[q].pc = "done" /\ req'[q].status = 200) =>
            doc' = Present(WriteOf(q))
     /\ \A p \in Procs :
          (req[p].pc = "done" /\ gh[p].writes > 0) => req[p].status = 200]_vars

\* C6 witness: two Creates raced, both answered success, and the trip of the one
\* that PATCHed first is not in the document
C6_Witness ==
  \E p \in Procs, q \in Procs :
    /\ p # q
    /\ req[p].pc = "done" /\ req[p].op = "POST" /\ req[p].status = 200
    /\ req[q].pc = "done" /\ req[q].op = "POST" /\ req[q].status = 200
    /\ gh[q].stale
    /\ CountOf(doc.trips, req[p].trip) = 0
    /\ CountOf(doc.trips, req[q].trip) = 1

\* C7: with the store's URL or the API key missing, every operation answers the
\* configuration error and no request goes to the store
C7_ConfigFailFast ==
  ConfigMissing(cfg) =>
    \A p \in Procs :
      /\ req[p].pc \notin {"get", "patch"}
      /\ req[p].pc = "done" =>
           /\ req[p].status = 500
           /\ req[p].error = "Server configuration error"
           /\ gh[p].gets = 0 /\ gh[p].patches = 0

C9_CountMatchesList ==
  \A p \in Procs :
    (/\ req[p].pc = "done" /\ req[p].op = "COUNT"
     /\ gh[p].get = "ok" /\ gh[p].solo) =>
      /\ req[p].count = Len(GetTrips(StoreBody(gh[p].shape, doc)))
      /\ req[p].nextTripNumber = req[p].count + 1

\* C10: no two entries of the stored trips array carry the same id
C10_UniqueIds ==
  \A i \in 1..Len(doc.trips), j \in 1..Len(doc.trips) :
    i # j => doc.trips[i].id # doc.trips[j].id

\* C11: no trip of the stored collection has a traveler whose name is empty or
\* made of white space only
C11_NoBlankTravelers ==
  \A i \in 1..Len(doc.trips) :
    \A j \in 1..Len(doc.trips[i].travelers) :
      Trim(doc.trips[i].travelers[j].name) # <<>>

\* a call of searchLocations has returned
SearchDone == geo.fn = "searchLocations" /\ geo.pc = "done"

\* C12: searchLocations with a query of fewer than 3 characters after trimming
\* (the empty query too) returns the empty sequence and sends no request
C12_ShortQueryNoRequest ==
  (geo.fn = "searchLocations" /\ Len(Trim(geo.query)) < 3) =>
    /\ geo.pc = "done"
    /\ geo.results = <<>>
    /\ geo.requests = 0
    /\ ~geo.threw

\* C12 witness: the query " aa " is 4 characters long, 2 after trimming
C12_Witness ==
  /\ SearchDone
  /\ geo.query = <<Space, "a", "a", Space>>
  /\ geo.requests = 0

\* C13: searchLocations never lets an error out: after a response without success,
\* a network error or a body that does not parse it returns the empty sequence, and
\* on success it returns at most 5 results in the provider's order
C13_SearchNeverFails ==
  SearchDone =>
    /\ ~geo.threw
    /\ geo.outcome \in {"bad_status", "throws", "bad_json"} => geo.results = <<>>
    /\ geo.outcome \in {"ok", "ok_null"} =>
         /\ Len(geo.results) <= 5
         /\ \A i \in 1..Len(geo.results) : geo.results[i] = i

\* C13 witness: the provider has 6 matches and the call returns 5
C13_Witness == SearchDone /\ geo.outcome = "ok" /\ Len(geo.results) = 5

\* the text of a coordinate, written out
C14_Text == [n \in Coords |-> CASE n = -1 -> "-1" [] n = 0 -> "0" [] n = 12 -> "12"]

\* C14: reverseGeocode never throws and returns a non-empty text; after a response
\* without success, a network error or a body that does not parse it returns
\* exactly "<lat>, <lng>"
C14_ReverseAlwaysText ==
  (geo.fn = "reverseGeocode" /\ geo.pc = "done") =>
    /\ ~geo.threw
    /\ geo.address # ""
    /\ geo.outcome \in {"bad_status", "throws", "bad_json", "ok_null"} =>
         geo.address = C14_Text[geo.lat] \o ", " \o C14_Text[geo.lng]

\* C14 witness: the provider fails for (-1, 12)
C14_Witness ==
  /\ geo.fn = "reverseGeocode" /\ geo.pc = "done"
  /\ geo.outcome = "bad_status"
  /\ geo.address = "-1, 12"

\* C15: GET /api/weather without lat or without lng answers 400 and sends no
\* request to the forecast provider
C15_WeatherMissingParam ==
  (weather.pc # "idle" /\ (weather.lat = NoId \/ weather.lng = NoId)) =>
    /\ weather.pc = "done"
    /\ weather.status = 400
    /\ weather.sent = 0

\* C15 witness: lat is given, lng is not
C15_Witness ==
  /\ weather.pc = "done" /\ weather.lat = "12" /\ weather.lng = NoId
  /\ weather.status = 400

\* the texts that are numbers
C16_Numbers == {"12", "91"}

\* C16: GET /api/weather with lat and lng given, one of them not a number, answers
\* with a validation failure and sends no request to the forecast provider
C16_WeatherInvalidParam ==
  (/\ weather.pc # "idle"
   /\ ~Falsy(weather.lat) /\ ~Falsy(weather.lng)
   /\ (weather.lat \notin C16_Numbers \/ weather.lng \notin C16_Numbers)) =>
    /\ weather.pc = "done"
    /\ weather.status = 400
    /\ weather.sent = 0

\* the timer scheduled last
C17_Latest == search.nextId - 1

\* C17 as stated: every change of the value leaves exactly one pending search,
\* the one for the new value, due 500 ms later, and a search that calls
\* searchLocations is the one scheduled last
C17_EveryChangeReschedules ==
  [][/\ search.value' # search.value =>
          search.timers' = {[id |-> search.nextId, due |-> search.now + 500,
                             value |-> search.value']}
     /\ search.called' # search.called =>
          search.called'[Len(search.called')] = C17_Latest]_vars

\* C17 amended: every change of the value cancels the pending search; a value of
\* at least 3 characters after trimming schedules one 500 ms later, a shorter one
\* schedules none; a search that calls searchLocations is the one scheduled last,
\* 500 ms or more have passed since, and the value is still the one it was set for
C17_Debounce ==
  [][/\ search.value' # search.value =>
          search.timers' =
            IF Len(Trim(search.value')) >= 3
            THEN {[id |-> search.nextId, due |-> search.now + 500,
                   value |-> search.value']}
            ELSE {}
     /\ search.called' # search.called =>
          /\ search.called'[Len(search.called')] = C17_Latest
          /\ \E t \in search.timers :
               /\ t.id = C17_Latest
               /\ t.value = search.value
               /\ search.now >= t.due]_vars

\* C17 witness: two searches were scheduled, the second one alone has called
C17_Witness == search.nextId = 3 /\ search.called = <<2>>

\* C18: once the user has toggled the theme, a loaded page that has settled shows
\* the last toggled value and local storage holds it; and loading a page never
\* replaces a stored 'dark' by 'light'
C18_ThemePersists ==
  [][/\ (theme.page' # "none" /\ theme.pending' = <<>> /\ theme.toggled' # "none") =>
          (theme.state' = theme.toggled' /\ theme.storage' = theme.toggled')
     /\ (theme.page = "none" /\ theme.page' # "none" /\ theme.storage = "dark") =>
          theme.storage' = "dark"]_vars

\* Create's GET was answered without success, or with a body that does not parse
C19_GetFailed(p) == req[p].op = "POST" /\ gh[p].get \in {"bad_status", "bad_json"}

\* C19: when Create's GET is answered without success or its body does not parse,
\* Create goes on from an empty collection: it PATCHes exactly [new trip], and
\* after a successful PATCH the store holds only the new trip
C19_CreateStartsFromEmpty ==
  \A p \in Procs :
    C19_GetFailed(p) =>
      /\ req[p].pc = "patch" => req[p].trips = <<req[p].trip>>
      /\ req[p].pc = "done" => gh[p].patches = 1
      /\ (req[p].pc = "done" /\ req[p].status = 200) => doc.trips = <<req[p].trip>>

\* C19 witness: the store held a trip, Create's GET failed, Create answered 200
C19_Witness ==
  \E p \in Procs :
    /\ C19_GetFailed(p)
    /\ req[p].pc = "done" /\ req[p].status = 200
    /\ gh[p].before # <<>>
    /\ doc.trips = <<req[p].trip>>

\* C20: List, Create, Update and Delete take the same trips from any store
\* document: file_data.trips when present, else the top-level trips, else none
C20_SameTripsFromAnyBody ==
  \A h \in Handlers :
    parsed.by[h].read =>
      parsed.by[h].trips =
        CASE parsed.data.file_data.has -> parsed.data.file_data.trips
          [] ~parsed.data.file_data.has /\ parsed.data.top.has -> parsed.data.top.trips
          [] OTHER -> <<>>

\* C20 witness: a body with both fields, holding different arrays; all four
\* handlers have read it and hold the array of file_data
C20_Witness ==
  /\ parsed.data.file_data.has /\ parsed.data.top.has
  /\ Len(parsed.data.file_data.trips) = 1 /\ Len(parsed.data.top.trips) = 2
  /\ \A h \in Handlers :
       parsed.by[h].read /\ parsed.by[h].trips = parsed.data.file_data.trips

\* ---- Update and Delete against a store that answers with a failure
\* p's Update or Delete has returned
C24_Returned(p) == req[p].pc = "done" /\ req[p].op \in {"PUT", "DELETE"}

\* C24: in Update and Delete a non-success answer of the store's GET or PATCH
\* gives the operation-failed result (500), never not-found (404); after a
\* non-success GET no PATCH was issued and the document is what it was
C24_StoreFailureIs500 ==
  \A p \in Procs :
    C24_Returned(p) =>
      /\ gh[p].get = "bad_status" =>
           /\ req[p].status = 500
           /\ req[p].error \in {"Failed to update trip", "Failed to delete trip"}
           /\ gh[p].patches = 0
           /\ gh[p].solo => doc.trips = gh[p].before
      /\ gh[p].patch = "bad_status" =>
           /\ req[p].status = 500
           /\ req[p].error \in {"Failed to update trip", "Failed to delete trip"}

\* the store fetched a document holding the target and then refused the PATCH
C24_Witness ==
  \E p \in Procs :
    /\ C24_Returned(p) /\ req[p].op = "DELETE"
    /\ gh[p].patch = "bad_status" /\ gh[p].get = "ok"
    /\ req[p].status = 500 /\ gh[p].solo
    /\ req[p].id \in IdsOf(doc.trips)

\* ---- the list of the home page
\* b is a of the same entries in another order
C25_Permutation(a, b) ==
  /\ Len(a) = Len(b)
  /\ \A i \in 1..Len(a) : CountOf(a, a[i]) = CountOf(b, a[i])

C25_NewestFirst(trips) ==
  \A i \in 1..(Len(trips) - 1) : trips[i].createdAt >= trips[i + 1].createdAt

\* C25: when the home page takes a successful List response, the list it shows
\* is that response reordered by createdAt, newest first
C25_HomeNewestFirst ==
  [][\A p \in Procs :
       (/\ req[p].pc = "done" /\ req[p].caller = "home" /\ req[p].op = "GET"
        /\ req[p].status = 200 /\ req'[p].pc = "idle")
       => /\ C25_NewestFirst(home'[p].trips)
          /\ C25_Permutation(home'[p].trips, req[p].out)]_vars

\* the store keeps the older trip first, the page shows the newer one first
C25_Witness ==
  \E p \in Procs :
    /\ home[p].mounted /\ ~home[p].loading /\ req[p].pc = "idle"
    /\ Len(doc.trips) = 2 /\ Len(home[p].trips) = 2
    /\ doc.trips[1].createdAt < doc.trips[2].createdAt
    /\ home[p].trips = <<doc.trips[2], doc.trips[1]>>

\* ---- what Delete sends to the store
\* the positions of the fetched entries that carry another id
C27_Kept(fetched, id) == {i \in 1..Len(fetched) : fetched[i].id # id}

\* the k-th of them, counted from the front
C27_KthKept(fetched, id, k) ==
  CHOOSE i \in C27_Kept(fetched, id) :
    Cardinality({j \in C27_Kept(fetched, id) : j <= i}) = k

\* C27: the trips array Delete PATCHes is the fetched one without any entry of
\* the target id, every duplicate gone, the others as they were and in their order
C27_DeleteRemovesAll ==
  \A p \in Procs :
    (req[p].op = "DELETE" /\ req[p].pc = "patch") =>
      /\ \A i \in 1..Len(req[p].trips) : req[p].trips[i].id # req[p].id
      /\ Len(req[p].trips) = Cardinality(C27_Kept(gh[p].snap, req[p].id))
      /\ \A k \in 1..Len(req[p].trips) :
           req[p].trips[k] = gh[p].snap[C27_KthKept(gh[p].snap, req[p].id, k)]

\* two stored entries share the target id and both are gone from the PATCH body
C27_Witness ==
  \E p \in Procs :
    /\ req[p].op = "DELETE" /\ req[p].pc = "patch"
    /\ Len(gh[p].snap) = 2
    /\ gh[p].snap[1].id = req[p].id /\ gh[p].snap[2].id = req[p].id
    /\ req[p].trips = <<>>

\* ---- Delete without an id
\* C30: with the configuration present, Delete without an id parameter answers
\* 400 "Trip ID is required" and calls the store neither with GET nor with PATCH
C30_DeleteWithoutId ==
  \A p \in Procs :
    (/\ req[p].op = "DELETE" /\ req[p].pc # "idle"
     /\ req[p].id = NoId /\ ~ConfigMissing(cfg))
    => /\ req[p].pc = "done"
       /\ req[p].status = 400 /\ req[p].error = "Trip ID is required"
       /\ gh[p].gets = 0 /\ gh[p].patches = 0
       /\ gh[p].solo => doc.trips = gh[p].before

\* the request without id was made while a trip was stored
C30_Witness ==
  \E p \in Procs :
    /\ req[p].op = "DELETE" /\ req[p].pc = "done" /\ req[p].id = NoId
    /\ req[p].status = 400 /\ ~ConfigMissing(cfg)
    /\ doc.trips # <<>>

\* ---- the suggestion list of LocationSearch
\* the dropdown is rendered: showSuggestions && suggestions.length > 0
C29_ListShown == search.showSuggestions /\ search.suggestions = "results"

\* C29: while the input holds fewer than 3 characters after trimming, the
\* suggestion list is empty and hidden, also after the answer to a search made
\* for an earlier, longer input has come in
C29_ShortInputNoSuggestions ==
  SearchTooShort(search.value) =>
    /\ ~C29_ListShown
    /\ search.suggestions \in {"none", "empty"}

\* ---- the map of the trip-detail view
\* C26: on the detail page the marker and the location the external-maps button
\* opens both stay at the trip's stored coordinates, whatever is clicked
C26_DetailMapReadOnly ==
  mapView.page = "trip" =>
    /\ mapView.marker = mapView.stored
    /\ mapView.currentLocation = mapView.stored

\* ---- the trip number of the new-trip form
\* p's form takes the answer of the List it made at load
C21_CountTaken(p) ==
  req[p].pc = "done" /\ req[p].caller = "form" /\ req'[p].pc = "idle"

\* p's form sends its trip
C21_Saved(p) == req[p].pc = "idle" /\ req'[p].op = "POST"

\* C21: at load the form's tripNumber becomes the text of (number of trips List
\* returned) + 1, and stays "1" when listing failed; a save sends the form's
\* tripNumber as it is, whatever the collection holds by then
C21_TripNumberFromCount ==
  [][\A p \in Procs :
       /\ C21_CountTaken(p) =>
            newtrip'[p].tripNumber =
              IF req[p].status = 200
              THEN NumberToString(Len(req[p].out) + 1)
              ELSE "1"
       /\ C21_Saved(p) => req'[p].trip.tripNumber = newtrip[p].tripNumber]_vars

\* both forms were loaded against the empty collection and both were saved:
\* two trips with different ids carry the tripNumber "1"
C21_Witness ==
  /\ \A p \in Procs : newtrip[p].tripCount = 0 /\ newtrip[p].tripNumber = "1"
  /\ Len(doc.trips) = 2
  /\ doc.trips[1].id # doc.trips[2].id
  /\ doc.trips[1].tripNumber = "1" /\ doc.trips[2].tripNumber = "1"
  /\ \A p \in Procs : req[p].pc = "idle"

\* ---- saving a form that was opened through Edit
\* every request of the form is a List or a Create, and a Create carries an id
\* made from the clock at the save
C28_AlwaysCreate ==
  \A p \in Procs :
    /\ req[p].caller = "form" => req[p].op = "GET"
    /\ req[p].caller = "newtrip" =>
         /\ req[p].op = "POST"
         /\ req[p].trip.id = NumberToString(req[p].trip.createdAt)

\* p's form was opened for a stored trip and its save has answered success
C28_SavedAfterEdit(p) ==
  /\ req[p].pc = "done" /\ req[p].caller = "newtrip" /\ req[p].status = 200
  /\ gh[p].solo
  /\ newtrip[p].edit \in IdsOf(gh[p].before)

\* C28 as stated: saving always issues a Create with an id of its own, and a
\* successful save after Edit leaves the collection as it was, the original trip
\* included, with the new trip added at its end
C28_EditSavesNewTrip ==
  /\ C28_AlwaysCreate
  /\ \A p \in Procs :
       C28_SavedAfterEdit(p) => doc.trips = Append(gh[p].before, req[p].trip)

\* C28 amended: the same when Create's GET of the store was answered with a
\* document; when it was answered without success or with a body that does not
\* parse, the collection is the new trip alone and the original is gone
C28_EditSavesNewTripWhenFetched ==
  /\ C28_AlwaysCreate
  /\ \A p \in Procs :
       C28_SavedAfterEdit(p) =>
         doc.trips = IF gh[p].get = "ok"
                     THEN Append(gh[p].before, req[p].trip)
                     ELSE <<req[p].trip>>

\* the form was opened for the stored trip, saved, and the store holds both
C28_Witness ==
  \E p \in Procs :
    /\ C28_SavedAfterEdit(p) /\ gh[p].get = "ok"
    /\ Len(doc.trips) = 2
    /\ doc.trips[1].id = newtrip[p].edit
    /\ doc.trips[2] = req[p].trip

\* ---- the weather of the picked location
\* the ids of what a set of timers or requests holds for pick number id
C22_Of(set, id) == {x \in set : x.id = id}

\* how many answers pick number id has had
C22_Answers(id) ==
  Cardinality({i \in 1..Len(picked.arrived) : picked.arrived[i].id = id})

\* the answer that came in last
C22_LastArrived == picked.arrived[Len(picked.arrived)]

C23_NoRetry ==
  /\ \A p \in Procs :
       /\ gh[p].gets <= 1 /\ gh[p].patches <= 1
       /\ req[p].op \in {"GET", "COUNT"} => gh[p].patches = 0
       /\ (req[p].pc = "done" /\ gh[p].get \notin {"none", "ok"}) =>
            gh[p].gets = 1 /\ gh[p].patches <= 1
  /\ geo.requests <= 1
  /\ weather.sent <= 1
  /\ (geo.pc = "done" /\ geo.outcome \notin {"none", "ok"}) => geo.requests = 1

\* the provider's answer to a lookup was a failure and the call has returned
\* after that single request
C23_Witness ==
  /\ geo.pc = "done" /\ geo.requests = 1
  /\ geo.outcome \in {"bad_status", "throws"}

=============================================================================
